---- MODULE Spec2Model ----
(***************************************************************************)
(* notion2hugo: Notion pages -> Hugo markdown.                             *)
(*                                                                         *)
(* The model covers the markup renderer (MarkdownStyler), the document     *)
(* assembler (MarkdownExporter.async_process), the formatter, the provider *)
(* (fetch, parse, image cache, cleanup) and the batch runner.              *)
(*                                                                         *)
(* A Python str is modelled as a sequence of one-character strings, so     *)
(* that `in`, split, strip, replace, lower and join are computed as the    *)
(* interpreter computes them.  None/"" of an Optional[str] and None/[] of  *)
(* an Optional[List] are both the empty sequence: every use in the code is *)
(* a truthiness test, except Blob.language, which is formatted.  The       *)
(* filesystem a call sees is its last parameter, fs: path -> bytes.  The   *)
(* grave accent cannot be written in a TLA+ string: the atom "BACKTICK"    *)
(* stands for that one character.                                          *)
(***************************************************************************)
EXTENDS Integers, Sequences, FiniteSets, TLC

VARIABLES
    disk,        \* the working filesystem: path -> what the bytes are
    publish,     \* the shared publish tree (../content, ../assets): records
    pc,          \* position of Runner.async_run / the harness call
    pages,       \* page metadatas the database query returned
    task,        \* per page: state of its fetch-and-parse coroutine
    finished,    \* pages in the order their coroutine completed
    parsed,      \* per page: the PageContent its coroutine returned
    cur,         \* the page the runner is processing (0: none)
    cleanups,    \* how many times NotionProvider.cleanup has run
    tmp_cache,   \* TRUE while config.tmp_cache_dir exists
    formatted,   \* pages the formatter has returned for
    exported,    \* per page: outcome of MarkdownExporter.async_process
    asked,       \* per page: how many publish prompts were shown
    answer,      \* per page: the answers given at the prompt
    copy_failed, \* pages whose publish copy raised inside the try block
    log,         \* error records written by logger.error in the publish step
    raised,      \* the exception that ended Runner.async_run ("" if none)
    fn,          \* harness: the function applied ("" before the call)
    arg,         \* harness: its argument
    ret          \* harness: what it returned or raised

vars == <<disk, publish, pc, pages, task, finished, parsed, cur, cleanups, tmp_cache,
          formatted, exported, asked, answer, copy_failed, log, raised, fn, arg, ret>>

\* ------------------------------------------------------------------------
\* Python str primitives

\* "".join(parts)
RECURSIVE Concat(_)
Concat(parts) == IF parts = <<>> THEN <<>> ELSE Head(parts) \o Concat(Tail(parts))

\* sep.join(parts)
RECURSIVE Join(_, _)
Join(sep, parts) ==
    IF parts = <<>> THEN <<>>
    ELSE IF Len(parts) = 1 THEN parts[1]
    ELSE parts[1] \o sep \o Join(sep, Tail(parts))

\* s * n
RECURSIVE Repeat(_, _)
Repeat(s, n) == IF n <= 0 THEN <<>> ELSE s \o Repeat(s, n - 1)

\* sub in s
Contains(s, sub) ==
    \E i \in 1..(Len(s) - Len(sub) + 1) : SubSeq(s, i, i + Len(sub) - 1) = sub

\* s.startswith(p)
StartsWith(s, p) == Len(p) <= Len(s) /\ SubSeq(s, 1, Len(p)) = p

\* s.find(c) + 1 for a one-character c (0: absent)
IndexOf(s, c) ==
    IF \E i \in 1..Len(s) : s[i] = c
    THEN CHOOSE i \in 1..Len(s) : s[i] = c /\ \A j \in 1..(i - 1) : s[j] # c
    ELSE 0

\* s.split(c)
RECURSIVE Split(_, _)
Split(s, c) ==
    LET i == IndexOf(s, c)
    IN  IF i = 0 THEN <<s>>
        ELSE <<SubSeq(s, 1, i - 1)>> \o Split(SubSeq(s, i + 1, Len(s)), c)

Whitespace == {" ", "\n", "\t", "\r"}

RECURSIVE LStrip(_)
LStrip(s) == IF s # <<>> /\ Head(s) \in Whitespace THEN LStrip(Tail(s)) ELSE s

RECURSIVE RStrip(_)
RStrip(s) ==
    IF s # <<>> /\ s[Len(s)] \in Whitespace THEN RStrip(SubSeq(s, 1, Len(s) - 1)) ELSE s

\* s.strip()
Strip(s) == LStrip(RStrip(s))

UpperCase == <<"A", "B", "C", "D", "E", "F", "G", "H", "I", "J", "K", "L", "M", "N", "O", "P",
               "Q", "R", "S", "T", "U", "V", "W", "X", "Y", "Z">>
LowerCase == <<"a", "b", "c", "d", "e", "f", "g", "h", "i", "j", "k", "l", "m", "n", "o", "p",
               "q", "r", "s", "t", "u", "v", "w", "x", "y", "z">>
Digits == <<"0", "1", "2", "3", "4", "5", "6", "7", "8", "9">>

\* c.lower() for one character
Lower(c) ==
    IF \E i \in 1..Len(UpperCase) : UpperCase[i] = c
    THEN LowerCase[CHOOSE i \in 1..Len(UpperCase) : UpperCase[i] = c]
    ELSE c

\* s.replace(a, b) for one-character a, b
Replace(s, a, b) == [i \in 1..Len(s) |-> IF s[i] = a THEN b ELSE s[i]]

\* os.path.basename(p)
basename(p) == LET parts == Split(p, "/") IN parts[Len(parts)]

\* os.path.exists(p)
exists(fs, p) == p \in DOMAIN fs

\* ------------------------------------------------------------------------
\* exporter.py: sanitize_path

\* the characters the pattern [^a-zA-Z0-9-_\.] does not match
PathChars ==
    {UpperCase[i] : i \in 1..Len(UpperCase)} \cup {LowerCase[i] : i \in 1..Len(LowerCase)}
        \cup {Digits[i] : i \in 1..Len(Digits)} \cup {"-", "_", "."}

KeepsPathChar(c) == c \in PathChars

\* mutant: the pattern is applied before spaces are replaced, so spaces are stripped
sanitize_path_strip_first(name) ==
    LET stripped == SelectSeq(name, KeepsPathChar)
        replaced == Replace(stripped, " ", "_")
    IN  [i \in 1..Len(replaced) |-> Lower(replaced[i])]

sanitize_path(name) ==
    LET replaced == Replace(name, " ", "_")
        lowered  == [i \in 1..Len(replaced) |-> Lower(replaced[i])]
    IN  SelectSeq(lowered, KeepsPathChar)

\* provider.py: NotionProvider.sanitize_path, a copy of the above
NotionProvider_sanitize_path(name) ==
    LET replaced == Replace(name, " ", "_")
        lowered  == [i \in 1..Len(replaced) |-> Lower(replaced[i])]
    IN  SelectSeq(lowered, KeepsPathChar)

\* ------------------------------------------------------------------------
\* Results of calls that may raise: err is the exception's class, "" if none

Ok(v) == [err |-> "", val |-> v]
Raise(e) == [err |-> e, val |-> <<>>]

\* ------------------------------------------------------------------------
\* base.py data model, as the source files under src/ construct and read it

\* ContentWithAnnotation(plain_text=text): every other field at its default
Ann(text) ==
    [plain_text |-> text, bold |-> FALSE, italic |-> FALSE, strikethrough |-> FALSE,
     underline |-> FALSE, code |-> FALSE, color |-> <<>>, href |-> <<>>,
     is_equation |-> FALSE, highlight |-> FALSE, is_caption |-> FALSE,
     is_toggleable |-> FALSE, is_feature_image |-> FALSE]

\* Blob(...): language is <<>> for None, <<text>> otherwise; table_width 0 is None
Blob(id, type, rich_text, children) ==
    [id |-> id, type |-> type, rich_text |-> rich_text, children |-> children,
     file |-> <<>>, language |-> <<>>, table_width |-> 0, table_cells |-> <<>>,
     is_checked |-> FALSE, url |-> <<>>]

\* an Optional[Blob] that is None
NoBlob == [type |-> "None"]

\* the names for which hasattr(MarkdownStyler, name) holds
StylerAttributes ==
    {"INC_INDENT", "_style_content_with_annotation", "divider", "heading_1", "heading_2",
     "heading_3", "equation", "code", "_list_item", "bulleted_list_item",
     "numbered_list_item", "to_do", "quote", "table", "table_row", "parse_caption",
     "image", "paragraph", "process", "video", "column_list", "column", "callout"}

\* the closed set of block variants the renderer has a method for
Variants ==
    {"paragraph", "heading_1", "heading_2", "heading_3", "divider", "equation", "code",
     "bulleted_list_item", "numbered_list_item", "to_do", "quote", "table", "table_row",
     "image", "video", "column_list", "column", "callout"}

\* ------------------------------------------------------------------------
\* exporter.py: MarkdownStyler

INC_INDENT == 4

\* mutant: italic is applied before bold
StyleRun_italic_first(text) ==
    LET t0 == text.plain_text
        t1 == IF text.italic THEN <<"_">> \o t0 \o <<"_">> ELSE t0
        t2 == IF text.bold THEN <<"*", "*">> \o t1 \o <<"*", "*">> ELSE t1
        t3 == IF text.strikethrough THEN <<"~", "~">> \o t2 \o <<"~", "~">> ELSE t2
        t4 == IF text.underline THEN <<"<", "i", "n", "s", ">">> \o t3 \o <<"<", "/", "i", "n",
                                                                            "s", ">">> ELSE t3
        t5 == IF text.code THEN <<"BACKTICK">> \o t4 \o <<"BACKTICK">> ELSE t4
        t6 == IF text.href # <<>> THEN <<"[">> \o t5 \o <<"]",
                                                          "(">> \o text.href \o <<")">> ELSE t5
        t7 == IF text.is_equation THEN <<"$", " ">> \o t6 \o <<" ", "$">> ELSE t6
        t8 == IF text.highlight THEN <<"<", "m", "a", "r", "k", ">">> \o t7 \o <<"<", "/", "m",
                                                                                 "a", "r", "k",
                                                                                 ">">> ELSE t7
    IN  t8

\* the body of the loop of _style_content_with_annotation for one run
StyleRun(text) ==
    LET t0 == text.plain_text
        t1 == IF text.bold THEN <<"*", "*">> \o t0 \o <<"*", "*">> ELSE t0
        t2 == IF text.italic THEN <<"_">> \o t1 \o <<"_">> ELSE t1
        t3 == IF text.strikethrough THEN <<"~", "~">> \o t2 \o <<"~", "~">> ELSE t2
        t4 == IF text.underline THEN <<"<", "i", "n", "s", ">">> \o t3 \o <<"<", "/", "i", "n",
                                                                            "s", ">">> ELSE t3
        t5 == IF text.code THEN <<"BACKTICK">> \o t4 \o <<"BACKTICK">> ELSE t4
        t6 == IF text.href # <<>> THEN <<"[">> \o t5 \o <<"]",
                                                          "(">> \o text.href \o <<")">> ELSE t5
        t7 == IF text.is_equation THEN <<"$", " ">> \o t6 \o <<" ", "$">> ELSE t6
        t8 == IF text.highlight THEN <<"<", "m", "a", "r", "k", ">">> \o t7 \o <<"<", "/", "m",
                                                                                 "a", "r", "k",
                                                                                 ">">> ELSE t7
    IN  t8

\* the loop: ts is the list built so far; an empty plain_text returns "" at once
RECURSIVE StyleLoop(_, _)
StyleLoop(texts, ts) ==
    IF texts = <<>> THEN Concat(ts)
    ELSE IF Head(texts).plain_text = <<>> THEN <<>>
    ELSE StyleLoop(Tail(texts), Append(ts, StyleRun(Head(texts))))

_style_content_with_annotation(texts) == StyleLoop(texts, <<>>)

RECURSIVE process(_, _, _)

\* a list with one more rendered element in front; the first exception wins
Cons(first, rest) ==
    IF first.err # "" THEN Raise(first.err)
    ELSE IF rest.err # "" THEN rest
    ELSE Ok(<<first.val>> \o rest.val)

\* [cls.process(child, indent) for child in children]
RECURSIVE ProcessEach(_, _, _)
ProcessEach(children, indent, fs) ==
    IF children = <<>> THEN Ok(<<>>)
    ELSE Cons(process(Head(children), indent, fs), ProcessEach(Tail(children), indent, fs))

\* f"{before}{r}{after}" of a rendering r that may have raised
Wrapped(before, r, after) == IF r.err # "" THEN r ELSE Ok(before \o r.val \o after)

\* "\n".join([first] + kids) of rendered children that may have raised
JoinedLines(first, kids) ==
    IF kids.err # "" THEN Raise(kids.err) ELSE Ok(Join(<<"\n">>, <<first>> \o kids.val))

divider(blob, indent, fs) == Ok(<<"\n", "-", "-", "-", "\n">>)

paragraph(blob, indent, fs) ==
    JoinedLines(_style_content_with_annotation(blob.rich_text),
                ProcessEach(blob.children, indent + INC_INDENT, fs))

heading_1(blob, indent, fs) == Wrapped(<<"#", " ">>, paragraph(blob, indent, fs), <<>>)

heading_2(blob, indent, fs) == Wrapped(<<"#", "#", " ">>, paragraph(blob, indent, fs), <<>>)

heading_3(blob, indent, fs) == Wrapped(<<"#", "#", "#",
                                         " ">>, paragraph(blob, indent, fs), <<>>)

equation(blob, indent, fs) == Wrapped(<<"$", "$", "\n">>, paragraph(blob, indent, fs), <<"\n",
                                                                                         "$",
                                                                                         "$">>)

\* f"{blob.language}"
FormatLanguage(language) == IF language = <<>> THEN <<"N", "o", "n", "e">> ELSE language[1]

code(blob, indent, fs) ==
    Wrapped(<<"BACKTICK", "BACKTICK",
              "BACKTICK">> \o FormatLanguage(blob.language) \o <<"\n">>, paragraph(blob, indent, fs),
            <<"\n">> \o <<"BACKTICK", "BACKTICK", "BACKTICK">>)

_list_item(blob, list_ch, indent, fs) ==
    JoinedLines(Repeat(<<" ">>, indent) \o list_ch \o <<" ">>
                    \o _style_content_with_annotation(blob.rich_text),
                ProcessEach(blob.children, indent + INC_INDENT, fs))

bulleted_list_item(blob, indent, fs) == _list_item(blob, <<"-">>, indent, fs)

numbered_list_item(blob, indent, fs) == _list_item(blob, <<"1", ".">>, indent, fs)

to_do(blob, indent, fs) ==
    _list_item(blob, IF blob.is_checked THEN <<"-", " ", "[", "X", "]">> ELSE <<"-", " ", "[",
                                                                                " ",
                                                                                "]">>, indent, fs)

quote(blob, indent, fs) ==
    Ok(Join(<<"\n", ">", "\n">>,
            <<<<">", " ">> \o _style_content_with_annotation(blob.rich_text)>>
                \o [i \in 1..Len(blob.children) |->
                        <<">",
                          " ">> \o _style_content_with_annotation(blob.children[i].rich_text)]))

\* mutant: the separator is appended after the last row
InsertAt1_append(rows, sep) == rows \o <<sep>>

\* rows.insert(1, sep)
InsertAt1(rows, sep) ==
    IF Len(rows) <= 1 THEN rows \o <<sep>>
    ELSE <<rows[1], sep>> \o SubSeq(rows, 2, Len(rows))

\* lines 120-123 of table, given the rendered rows
TableOf(table_width, rows) ==
    IF rows.err # "" THEN Raise(rows.err)
    ELSE Ok(<<"\n">>
            \o <<"{", "{", "<", " ", "b", "o", "o", "t", "s", "t", "r", "a", "p", "-", "t",
                 "a", "b", "l", "e", " ", "t", "a", "b", "l", "e", "_", "c", "l", "a", "s",
                 "s", "=", "\"", "t", "a", "b", "l", "e", " ", "t", "a", "b", "l", "e", "-",
                 "s", "t", "r", "i", "p", "e", "d", " ", "t", "a", "b", "l", "e", "-", "b",
                 "o", "r", "d", "e", "r", "e", "d", " ", "t", "a", "b", "l", "e", "-", "n",
                 "o", "n", "f", "l", "u", "i", "d", " ", "w", "-", "a", "u", "t", "o", "\"",
                 " ", ">", "}", "}">>
            \o Concat(IF Len(rows.val) >= 1
                      THEN InsertAt1(rows.val, <<"\n", "|">> \o Repeat(<<"-", "-", "-",
                                                                         "|">>, table_width))
                      ELSE rows.val)
            \o <<"\n">> \o <<"{", "{", "<", " ", "/", "b", "o", "o", "t", "s", "t", "r", "a",
                             "p", "-", "t", "a", "b", "l", "e", " ", ">", "}", "}">>)

table(blob, indent, fs) ==
    IF blob.table_width = 0 THEN Raise("AssertionError")
    ELSE TableOf(blob.table_width, ProcessEach(blob.children, indent, fs))

table_row(blob, indent, fs) ==
    IF blob.table_cells = <<>> THEN Raise("AssertionError")
    ELSE Ok(<<"|", " ">>
            \o Join(<<" ", "|", " ">>, [i \in 1..Len(blob.table_cells) |->
                               _style_content_with_annotation(blob.table_cells[i])])
            \o <<" ", "|">>)

parse_caption(input_string) ==
    IF Contains(input_string, <<"\\">>)
    THEN LET i == IndexOf(input_string, "\\")
         IN  <<Strip(SubSeq(input_string, 1, i - 1)),
               Strip(SubSeq(input_string, i + 1, Len(input_string)))>>
    ELSE <<input_string, <<>>>>

\* mutant: only the first segment is dropped (path_parts[1:])
RelativePath_first_segment(file) ==
    LET path_parts     == Split(file, "/")
        new_path_parts == <<<<"i", "m", "a", "g", "e",
                              "s">>>> \o SubSeq(path_parts, 2, Len(path_parts))
    IN  Join(<<"/">>, new_path_parts)

\* lines 169-173 of image: the src written into the shortcode
RelativePath(file) ==
    LET path_parts     == Split(file, "/")
        new_path_parts == <<<<"i", "m", "a", "g", "e",
                              "s">>>> \o SubSeq(path_parts, 3, Len(path_parts))
    IN  Join(<<"/">>, new_path_parts)

image(blob, indent, fs) ==
    IF ~(blob.file # <<>> /\ exists(fs, blob.file)) THEN Raise("AssertionError")
    ELSE LET caption == _style_content_with_annotation(blob.rich_text)
             parts   == parse_caption(caption)
         IN  Ok(<<"{", "{", "<", " ", "i", "m", "g", " ", "c", "l", "a", "s", "s", "=", "\"",
                  "b", "l", "o", "g", "-", "i", "m", "g", "-", "c", "e", "n", "t", "e", "r",
                  "\"", " ", "w", "i", "d", "t", "h", "=", "\"", "8", "0", "0", "\"", " ", "s",
                  "r", "c", "=", "\"">>
                \o RelativePath(blob.file) \o <<"\"", " ", "c", "a", "p", "t", "i", "o", "n",
                                                "=", "\"">> \o parts[1]
                \o <<"\"", " ", "a", "l", "t", "=", "\"">> \o parts[2] \o <<"\"", " ", ">",
                                                                            "}", "}">>)

video(blob, indent, fs) ==
    LET title == _style_content_with_annotation(blob.rich_text)
        host  == <<"h", "t", "t", "p", "s", ":", "/", "/", "y", "o", "u", "t", "u", ".", "b",
                   "e", "/">>
    IN  IF title = <<>> THEN Raise("AssertionError")
        ELSE IF ~StartsWith(blob.url, host) THEN Raise("AssertionError")
        ELSE Ok(<<"{", "{", "<", " ", "y", "o", "u", "t", "u", "b", "e", " ", "i", "d", "=",
                  "\"">> \o SubSeq(blob.url, Len(host) + 1, Len(blob.url))
                \o <<"\"", " ", "t", "i", "t", "l", "e", "=", "\"">> \o title \o <<"\"", " ",
                                                                                   "w", "i",
                                                                                   "d", "t",
                                                                                   "h", "=",
                                                                                   "6", "0",
                                                                                   " ", ">",
                                                                                   "}", "}">>)

column_list(blob, indent, fs) ==
    JoinedLines(_style_content_with_annotation(blob.rich_text),
                ProcessEach(blob.children, indent + INC_INDENT, fs))

column(blob, indent, fs) == _list_item(blob, <<"-", "c", "o", "l", "u", "m", "n">>, indent, fs)

callout(blob, indent, fs) ==
    Ok(<<"{", "{", "<", " ", "c", "a", "l", "l", "o", "u", "t", " ", "e", "m", "o", "j", "i",
         "=", "\"", "\"", " ", "t", "e", "x", "t", "=",
         "\"">> \o _style_content_with_annotation(blob.rich_text)
       \o <<"\"", " ", ">", "}", "}">>)

\* getattr(cls, blob.type.value)(blob, indent, fs) for the names BlobType can take
Render(blob, indent, fs) ==
    CASE blob.type = "paragraph"          -> paragraph(blob, indent, fs)
      [] blob.type = "heading_1"          -> heading_1(blob, indent, fs)
      [] blob.type = "heading_2"          -> heading_2(blob, indent, fs)
      [] blob.type = "heading_3"          -> heading_3(blob, indent, fs)
      [] blob.type = "divider"            -> divider(blob, indent, fs)
      [] blob.type = "equation"           -> equation(blob, indent, fs)
      [] blob.type = "code"               -> code(blob, indent, fs)
      [] blob.type = "bulleted_list_item" -> bulleted_list_item(blob, indent, fs)
      [] blob.type = "numbered_list_item" -> numbered_list_item(blob, indent, fs)
      [] blob.type = "to_do"              -> to_do(blob, indent, fs)
      [] blob.type = "quote"              -> quote(blob, indent, fs)
      [] blob.type = "table"              -> table(blob, indent, fs)
      [] blob.type = "table_row"          -> table_row(blob, indent, fs)
      [] blob.type = "image"              -> image(blob, indent, fs)
      [] blob.type = "video"              -> video(blob, indent, fs)
      [] blob.type = "column_list"        -> column_list(blob, indent, fs)
      [] blob.type = "column"             -> column(blob, indent, fs)
      [] blob.type = "callout"            -> callout(blob, indent, fs)

\* `not blob`
IsNone(blob) == blob.type = "None"

\* mutant: the class lacks the callout method
HasRenderer_no_callout(blob) == blob.type \in StylerAttributes \ {"callout"}

\* hasattr(cls, blob.type.value)
HasRenderer(blob) == blob.type \in StylerAttributes

process(blob, indent, fs) ==
    IF IsNone(blob) THEN Ok(<<>>)
    ELSE IF ~HasRenderer(blob) THEN Raise("ValueError")
    ELSE Wrapped(<<"\n">>, Render(blob, indent, fs), <<>>)

\* ------------------------------------------------------------------------
\* exporter.py: MarkdownExporter

\* MarkdownExporterConfig.parent_dir; post_name_property_key keeps its
\* default, None, so a post is named by its page id
parent_dir == <<"o", "u", "t">>

\* os.path.join(a, b) for a relative b
PathJoin(a, b) ==
    IF a = <<>> THEN b
    ELSE IF a[Len(a)] = "/" THEN a \o b
    ELSE a \o <<"/">> \o b

\* the filesystem after bytes are written at a path
Write(fs, path, data) ==
    [p \in DOMAIN fs \cup {path} |-> IF p = path THEN data ELSE fs[p]]

\* [c.lower() for c in s]
LowerAll(s) == [i \in 1..Len(s) |-> Lower(s[i])]

remove_line_with_caption(lines, keyword) ==
    SelectSeq(lines, LAMBDA line : ~Contains(line, keyword))

\* lines 278-280
post_images_dir(post_dir_name) ==
    PathJoin(PathJoin(parent_dir, post_dir_name), post_dir_name \o <<"_", "i", "m", "a", "g",
                                                                     "e", "s", "/">>)

\* lines 283-285
post_full_path(post_dir_name) ==
    PathJoin(PathJoin(parent_dir, post_dir_name), post_dir_name \o <<".", "m", "d">>)

\* the block types whose file the assembler relocates (lines 292-295)
RelocatedTypes == {"image", "paragraph", "numbered_list_item", "bulleted_list_item"}

\* lines 302-316: the file is copied into the post's images folder and the
\* blob replaced by a copy that names the new file
Relocate(blob, images_dir, fs) ==
    LET relocates    == /\ blob.type \in RelocatedTypes
                        /\ blob.file # <<>>
                        /\ exists(fs, blob.file)
        new_img_path == PathJoin(images_dir, basename(blob.file))
    IN  IF ~relocates THEN [err |-> "", blob |-> blob, fs |-> fs]
        ELSE IF new_img_path = blob.file
        THEN [err |-> "SameFileError", blob |-> blob, fs |-> fs]
        ELSE [err |-> "", blob |-> [blob EXCEPT !.file = new_img_path],
              fs |-> Write(fs, new_img_path, fs[blob.file])]

RECURSIVE ExportLoop(_, _, _, _)

\* line 317, given the rendering of the blob, and the rest of the loop
ExportNext(rest, images_dir, fs, texts, rendered) ==
    IF rendered.err # "" THEN [err |-> rendered.err, texts |-> texts, fs |-> fs]
    ELSE ExportLoop(rest, images_dir, fs, Append(texts, rendered.val))

\* the loop of lines 291-317: texts so far, the filesystem so far; the first
\* exception ends it
ExportLoop(blobs, images_dir, fs, texts) ==
    IF blobs = <<>> THEN [err |-> "", texts |-> texts, fs |-> fs]
    ELSE LET moved == Relocate(Head(blobs), images_dir, fs)
         IN  IF moved.err # "" THEN [err |-> moved.err, texts |-> texts, fs |-> fs]
             ELSE ExportNext(Tail(blobs), images_dir, moved.fs, texts,
                             process(moved.blob, 0, moved.fs))

\* lines 320-324, given the filtered texts and the rendered footer
WritePost(post_dir_name, fs, texts, footer) ==
    IF footer.err # "" THEN [err |-> footer.err, fs |-> fs]
    ELSE [err |-> "",
          fs |-> Write(fs, post_full_path(post_dir_name),
                       Strip(Join(<<"\n">>, Append(texts, footer.val))))]

\* lines 318-324, given the outcome of the loop over the blobs
FilterAndWrite(content, post_dir_name, body) ==
    IF body.err # "" THEN [err |-> body.err, fs |-> body.fs]
    ELSE WritePost(post_dir_name, body.fs,
                   remove_line_with_caption(body.texts, <<"c", "a", "p", "t", "i", "o", "n",
                                                          "=", "\"", "f", "e", "a", "t", "u",
                                                          "r", "e", "i", "m", "a", "g", "e",
                                                          "\"">>),
                   process(content.footer, 0, body.fs))

\* lines 291-324, given the rendered header
AssembleBody(content, post_dir_name, fs, header) ==
    IF header.err # "" THEN [err |-> header.err, fs |-> fs]
    ELSE FilterAndWrite(content, post_dir_name,
                        ExportLoop(content.blobs, post_images_dir(post_dir_name), fs,
                                   <<header.val>>))

\* lines 258-324 of async_process: render, filter, write <name>.md
AssembleAndWrite(content, fs) ==
    AssembleBody(content, sanitize_path(content.id), fs, process(content.header, 0, fs))

\* line 328
target_path(post_dir_name) ==
    <<".", ".", "/", "c", "o", "n", "t", "e", "n", "t", "/", "b", "l", "o", "g", "-", "e", "n",
      "t", "r", "i", "e", "s", "/">> \o basename(post_full_path(post_dir_name))

\* line 337: post_images_dir.rstrip('/'), basename, lower
PublishedImagesDir(post_dir_name) ==
    LET dir      == post_images_dir(post_dir_name)
        stripped == SubSeq(dir, 1, Len(dir) - 1)
    IN  <<".", ".", "/", "a", "s", "s", "e", "t", "s", "/", "i", "m", "a", "g", "e", "s",
          "/">> \o LowerAll(basename(stripped))

\* shutil.copy(post_full_path, target_path): what it writes for page doc
CopyPost(post_dir_name, fs, doc) ==
    {[path |-> target_path(post_dir_name), data |-> fs[post_full_path(post_dir_name)],
      doc |-> doc, by |-> "exporter"]}

\* shutil.copytree(post_images_dir, ...): one write per file below the folder
CopyImagesTree(post_dir_name, fs, doc) ==
    LET dir == post_images_dir(post_dir_name)
    IN  {[path |-> PathJoin(PublishedImagesDir(post_dir_name),
                            SubSeq(p, Len(dir) + 1, Len(p))),
          data |-> fs[p], doc |-> doc, by |-> "exporter"] :
            p \in {q \in DOMAIN fs : StartsWith(q, dir)}}

\* answers typed at the prompt of line 330
Responses == {<<"y">>, <<" ", "Y", " ">>, <<"n">>, <<>>}

\* mutant: the files are copied whatever the answer
Confirms_always(response) == TRUE

\* lines 330-331: response.strip().lower() == "y"
Confirms(response) == LowerAll(Strip(response)) = <<"y">>

\* where the copy of lines 334-338 may fail
CopyFailures == {"none", "copy", "copytree"}

\* self.logger.<level>(msg); the log keeps the entries of the publish step
\* (lines 335 and 340) and of the provider's cleanup
Logged(level, msg) == [level |-> level, msg |-> msg]

\* MarkdownExporter.async_process for page doc (an index into the per-page
\* state).  outcome' is "returned" or the exception raised.  In the except
\* clause of line 339 the name `exception` is not defined: when a copy
\* raises, evaluating the clause raises NameError and line 340 never runs.
async_process(doc, content, outcome) ==
    \E a \in {AssembleAndWrite(content, disk)}, name \in {sanitize_path(content.id)} :
        /\ disk' = a.fs
        /\ IF a.err # ""
           THEN /\ outcome = a.err
                /\ UNCHANGED <<publish, asked, answer, copy_failed, log>>
           ELSE \E response \in Responses, failure \in CopyFailures :
                  /\ asked' = [asked EXCEPT ![doc] = @ + 1]
                  /\ answer' = [answer EXCEPT ![doc] = Append(@, response)]
                  /\ IF ~Confirms(response)
                     THEN /\ failure = "none"
                          /\ outcome = "returned"
                          /\ UNCHANGED <<publish, copy_failed, log>>
                     ELSE CASE failure = "none" ->
                                 /\ publish' = publish \cup CopyPost(name, a.fs, doc)
                                                  \cup CopyImagesTree(name, a.fs, doc)
                                 /\ log' = Append(log, Logged("warning", "File copied to"))
                                 /\ outcome = "returned"
                                 /\ UNCHANGED copy_failed
                            [] failure = "copy" ->
                                 /\ outcome = "NameError"
                                 /\ copy_failed' = copy_failed \cup {doc}
                                 /\ UNCHANGED <<publish, log>>
                            [] failure = "copytree" ->
                                 /\ publish' = publish \cup CopyPost(name, a.fs, doc)
                                 /\ log' = Append(log, Logged("warning", "File copied to"))
                                 /\ outcome = "NameError"
                                 /\ copy_failed' = copy_failed \cup {doc}

\* ------------------------------------------------------------------------
\* provider.py: NotionParser
\*
\* A raw block is [id, type, content, children]; content has every key the
\* parser reads, empty when the payload lacks it (the parser only tests
\* truthiness); file and external are [present, url].  BlobType values
\* compare equal to their names, as the parser's `block.type == 'image'`
\* expects.  A parser's state is [img_count, fs].

\* NotionProviderConfig.download_dir
download_dir == <<"d", "o", "w", "n", "l", "o", "a", "d">>

\* str(n) for a natural number
RECURSIVE Decimal(_)
Decimal(n) == IF n < 10 THEN <<Digits[n + 1]>> ELSE Decimal(n \div 10) \o <<Digits[(n % 10) + 1]>>

\* what the media host answers for a URL: the Content-Type header
ContentTypeOf(url) ==
    IF StartsWith(url, <<"h", "t", "t", "p", "s", ":", "/", "/", "f", "i", "l", "e", "s",
                         "/">>) /\ Contains(url, <<".", "p", "n", "g">>) THEN <<"i", "m", "a",
                                                                                "g", "e", "/",
                                                                                "p", "n", "g">>
    ELSE IF StartsWith(url, <<"h", "t", "t", "p", "s", ":", "/", "/", "f", "i", "l", "e", "s",
                              "/">>) /\ Contains(url, <<".", "j", "p", "g">>) THEN <<"i", "m",
                                                                                     "a", "g",
                                                                                     "e", "/",
                                                                                     "j", "p",
                                                                                     "e", "g">>
    ELSE <<"t", "e", "x", "t", "/", "h", "t", "m", "l">>

\* the bytes the media host serves for a URL
BytesOf(url) == <<"b", "y", "t", "e", "s", " ", "o", "f", " ">> \o url

download_image_locally(url, st) ==
    LET content_type == Split(ContentTypeOf(url), "/")
        img_count    == st.img_count + 1
        img_path     == PathJoin(download_dir,
                                 <<"i", "m", "g",
                                   "_">> \o Decimal(img_count) \o <<".">> \o content_type[2])
    IN  IF ~(Len(content_type) = 2 /\ content_type[1] = <<"i", "m", "a", "g", "e">>)
        THEN [err |-> "AssertionError", path |-> <<>>, st |-> st]
        ELSE IF exists(st.fs, img_path)
        THEN [err |-> "", path |-> img_path, st |-> [st EXCEPT !.img_count = img_count]]
        ELSE [err |-> "", path |-> img_path,
              st |-> [img_count |-> img_count, fs |-> Write(st.fs, img_path, BytesOf(url))]]

\* ContentWithAnnotation(plain_text=..., href=..., **annotations, ...): the
\* fields every branch of parse_block copies from a raw text run
AnnotationOf(t) ==
    [Ann(t.plain_text) EXCEPT !.href = t.href, !.bold = t.bold, !.italic = t.italic,
                              !.strikethrough = t.strikethrough,
                              !.underline = t.underline, !.code = t.code,
                              !.color = t.color,
                              !.is_feature_image = (t.plain_text = <<"f", "e", "a", "t", "u",
                                                                     "r", "e", "i", "m", "a",
                                                                     "g", "e">>)]

\* lines 75-85
RichTextOf(content) ==
    [i \in 1..Len(content.rich_text) |->
        [AnnotationOf(content.rich_text[i])
            EXCEPT !.is_equation = (content.rich_text[i].type = "equation"),
                   !.is_toggleable = content.is_toggleable]]

\* lines 88-97
CaptionOf(content) ==
    [i \in 1..Len(content.caption) |->
        [AnnotationOf(content.caption[i]) EXCEPT !.is_caption = TRUE]]

\* lines 110-121
CellsOf(content) ==
    [i \in 1..Len(content.cells) |->
        [j \in 1..Len(content.cells[i]) |-> AnnotationOf(content.cells[i][j])]]

Resolved(rich_text, table_cells, url, img_path, st) ==
    [err |-> "", rich_text |-> rich_text, table_cells |-> table_cells, url |-> url,
     img_path |-> img_path, st |-> st]

ResolveFailed(e, st) ==
    [err |-> e, rich_text |-> <<>>, table_cells |-> <<>>, url |-> <<>>,
     img_path |-> <<>>, st |-> st]

\* lines 98-104, given the caption annotations
ResolveMedia(block, rich_text, st) ==
    IF block.type = "image"
    THEN IF block.content.file.url = <<>> THEN ResolveFailed("AssertionError", st)
         ELSE LET got == download_image_locally(block.content.file.url, st)
              IN  IF got.err # "" THEN ResolveFailed(got.err, st)
                  ELSE Resolved(rich_text, <<>>, <<>>, got.path, got.st)
    ELSE IF block.type = "video"
    THEN IF ~block.content.external.present THEN ResolveFailed("TypeError", st)
         ELSE Resolved(rich_text, <<>>, block.content.external.url, <<>>, st)
    ELSE Resolved(rich_text, <<>>, <<>>, <<>>, st)

\* mutant: caption and file are looked at before rich_text
ResolveFields_caption_first(block, st) ==
    IF block.content.caption # <<>> \/ block.content.file.present
    THEN ResolveMedia(block, CaptionOf(block.content), st)
    ELSE IF block.content.rich_text # <<>>
    THEN Resolved(RichTextOf(block.content), <<>>, <<>>, <<>>, st)
    ELSE IF block.content.expression # <<>>
    THEN Resolved(<<Ann(block.content.expression)>>, <<>>, <<>>, <<>>, st)
    ELSE IF block.content.cells # <<>>
    THEN Resolved(<<>>, CellsOf(block.content), <<>>, <<>>, st)
    ELSE Resolved(<<>>, <<>>, <<>>, <<>>, st)

\* lines 67-121: the block's own fields, by the precedence of the if chain
ResolveFields(block, st) ==
    IF block.content.rich_text # <<>>
    THEN Resolved(RichTextOf(block.content), <<>>, <<>>, <<>>, st)
    ELSE IF block.content.caption # <<>> \/ block.content.file.present
    THEN ResolveMedia(block, CaptionOf(block.content), st)
    ELSE IF block.content.expression # <<>>
    THEN Resolved(<<Ann(block.content.expression)>>, <<>>, <<>>, <<>>, st)
    ELSE IF block.content.cells # <<>>
    THEN Resolved(<<>>, CellsOf(block.content), <<>>, <<>>, st)
    ELSE Resolved(<<>>, <<>>, <<>>, <<>>, st)

RECURSIVE parse_block(_, _)

\* a list with one more parsed block in front: [err, blobs, st]
ParsedCons(first, rest) ==
    IF rest.err # "" THEN rest
    ELSE [err |-> "", blobs |-> <<first.blob>> \o rest.blobs, st |-> rest.st]

RECURSIVE ParseEach(_, _)

\* the rest of a list of blocks, parsed in the state the first left
ParseRest(first, blocks) ==
    IF first.err # "" THEN [err |-> first.err, blobs |-> <<>>, st |-> first.st]
    ELSE ParsedCons(first, ParseEach(blocks, first.st))

\* [self.parse_block(c) for c in blocks], in order
ParseEach(blocks, st) ==
    IF blocks = <<>> THEN [err |-> "", blobs |-> <<>>, st |-> st]
    ELSE ParseRest(parse_block(Head(blocks), st), Tail(blocks))

\* lines 123-136, given the block's fields and its parsed children
BlobOf(block, own, kids) ==
    IF kids.err # "" THEN [err |-> kids.err, blob |-> NoBlob, st |-> kids.st]
    ELSE [err |-> "",
          blob |-> [id |-> block.id, rich_text |-> own.rich_text, type |-> block.type,
                    children |-> kids.blobs, file |-> own.img_path,
                    language |-> block.content.language,
                    table_width |-> block.content.table_width,
                    table_cells |-> own.table_cells,
                    is_checked |-> block.content.checked, url |-> own.url],
          st |-> kids.st]

\* lines 123-136, given the block's fields
ParseChildren(block, own) ==
    IF own.err # "" THEN [err |-> own.err, blob |-> NoBlob, st |-> own.st]
    ELSE BlobOf(block, own, ParseEach(block.children, own.st))

parse_block(block, st) == ParseChildren(block, ResolveFields(block, st))

\* ------------------------------------------------------------------------
\* provider.py: parse_properties
\*
\* The page metadata is a sequence of entries [key, type, title, c,
\* rich_text] in the order of the dict; c is the value v.get(v["type"], {})
\* with kind "none" (missing or falsy), "scalar" (a truthy str, int or
\* bool, kept as text), "list", "dict" or "other".  Properties is a
\* function from key to [kind, str, list]; kind "falsy" is any falsy value.

StrValue(text) == [kind |-> "str", str |-> text, list |-> <<>>]
ListValue(items) == [kind |-> "list", str |-> <<>>, list |-> items]
FalsyValue == [kind |-> "falsy", str |-> <<>>, list |-> <<>>]

\* prop[k] = v
Put(prop, k, v) == [x \in DOMAIN prop \cup {k} |-> IF x = k THEN v ELSE prop[x]]

\* prop without the key k
Without(prop, k) == [x \in DOMAIN prop \ {k} |-> prop[x]]

\* bool(v) of a property value
Truthy(v) == (v.kind = "str" /\ v.str # <<>>) \/ (v.kind = "list" /\ v.list # <<>>)

\* line 172
QuotedTitles(title) == [i \in 1..Len(title) |-> <<"'">> \o title[i] \o <<"'">>]

\* lines 181-183: the names that are not None
NamesOf(names) ==
    LET present == SelectSeq(names, LAMBDA n : n # <<>>)
    IN  [i \in 1..Len(present) |-> present[i][1]]

\* lines 185-196: the branch that assigns value, "" when none does
DictBranch(c) ==
    IF c.name # <<>> THEN "name"
    ELSE IF c.type # <<>> THEN "type"
    ELSE IF c.prefix # <<>> /\ c.number # <<>> THEN "unique_id"
    ELSE IF c.start # <<>> THEN "start"
    ELSE ""

\* lines 185-196: value after the if chain; value is <<>> while unbound
DictValue(c, value) ==
    CASE DictBranch(c) = "name"      -> <<c.name>>
      [] DictBranch(c) = "type"      -> <<c.typed>>
      [] DictBranch(c) = "unique_id" -> <<c.prefix \o <<"_">> \o c.number>>
      [] DictBranch(c) = "start"     -> <<c.start>>
      [] OTHER                       -> value

\* lines 167-199: one turn of the loop, on [err, prop, value]
PropertyStep(acc, k, v) ==
    IF Contains(<<"r", "e", "l", "a", "t", "i", "o", "n">>, v.type) THEN acc
    ELSE IF v.type = <<"t", "i", "t", "l", "e">>
    THEN [acc EXCEPT !.prop =
             Put(acc.prop, <<"T", "i", "t", "l", "e">>,
                 IF Len(v.title) = 1 THEN StrValue(QuotedTitles(v.title)[1])
                 ELSE ListValue(QuotedTitles(v.title)))]
    ELSE IF v.c.kind = "none" THEN [acc EXCEPT !.prop = Put(acc.prop, k, FalsyValue)]
    ELSE IF v.c.kind = "scalar"
    THEN [acc EXCEPT !.prop = Put(acc.prop, k, StrValue(v.c.scalar))]
    ELSE IF v.c.kind = "list"
    THEN [acc EXCEPT !.prop = Put(acc.prop, k, ListValue(NamesOf(v.c.names)))]
    ELSE IF v.c.kind = "dict"
    THEN IF DictValue(v.c, acc.value) = <<>>
         THEN [acc EXCEPT !.err = "UnboundLocalError"]
         ELSE [acc EXCEPT !.prop = Put(acc.prop, k, StrValue(DictValue(v.c, acc.value)[1])),
                          !.value = DictValue(v.c, acc.value)]
    ELSE [acc EXCEPT !.err = "NotImplementedError"]

RECURSIVE PropertyLoop(_, _)
\* lines 166-199
PropertyLoop(metadata, acc) ==
    IF metadata = <<>> \/ acc.err # "" THEN acc
    ELSE PropertyLoop(Tail(metadata), PropertyStep(acc, Head(metadata).key, Head(metadata)))

\* lines 202-207
WithSummary(metadata, prop) ==
    LET found == SelectSeq(metadata, LAMBDA v : v.key = <<"S", "u", "m", "m", "a", "r", "y">>)
    IN  IF found # <<>> /\ found[1].rich_text # <<>> /\ found[1].rich_text[1].content # <<>>
        THEN Put(prop, <<"S", "u", "m", "m", "a", "r", "y">>,
                 StrValue(<<"'">> \o found[1].rich_text[1].content \o <<"'">>))
        ELSE prop

\* lines 200-211, given the outcome of the loop
FinishProperties(metadata, acc) ==
    IF acc.err # "" THEN [err |-> acc.err, prop |-> acc.prop]
    ELSE [err |-> "",
          prop |-> Put(WithSummary(metadata, acc.prop), <<"l", "e", "s", "e", "d", "a", "u",
                                                          "e", "r">>,
                       StrValue(<<"R", "e", "a", "d", "i", "n", "g", "T", "i", "m", "e">>))]

parse_properties(metadata) ==
    FinishProperties(metadata,
                     PropertyLoop(metadata, [err |-> "", prop |-> <<>>, value |-> <<>>]))

\* ------------------------------------------------------------------------
\* provider.py: NotionProvider.async_fetch_and_parse_page_content, after the
\* blocks were fetched

\* PageContent before a page is parsed
NoContent ==
    [id |-> <<>>, blobs |-> <<>>, properties |-> <<>>, header |-> NoBlob, footer |-> NoBlob]

\* lines 296-301: the file of the last top-level blob that carries the
\* marker annotation (the break leaves the inner loop only)
RECURSIVE FeatureImageFile(_, _)
FeatureImageFile(blobs, sofar) ==
    IF blobs = <<>> THEN sofar
    ELSE FeatureImageFile(
             Tail(blobs),
             IF \E i \in 1..Len(Head(blobs).rich_text) :
                    /\ Head(blobs).rich_text[i].plain_text = <<"f", "e", "a", "t", "u", "r",
                                                               "e", "i", "m", "a", "g", "e">>
                    /\ Head(blobs).rich_text[i].is_feature_image
             THEN [none |-> Head(blobs).file = <<>>, file |-> Head(blobs).file]
             ELSE sofar)

\* os.path.splitext(path)[1]
splitext(path) ==
    LET name  == basename(path)
        dots  == {i \in 1..Len(name) : name[i] = "."}
        last  == CHOOSE i \in dots : \A j \in dots : j <= i
        leads == \A j \in 1..(last - 1) : name[j] = "."
    IN  IF dots = {} THEN <<>>
        ELSE IF leads THEN <<>>
        ELSE SubSeq(name, last, Len(name))

\* line 306
feature_image_dest(title, feature_image_file) ==
    <<"i", "m", "a", "g", "e", "s", "/", "t", "h", "u", "m", "b",
      "_">> \o NotionProvider_sanitize_path(title) \o splitext(feature_image_file)

\* lines 305-311, given the parsed blobs, the properties and the feature
\* image: [err, content, fs, copied]; copied is what shutil.copy wrote below
\* ../assets
CopyThumbnail(doc, page, blobs, prop, feature, fs) ==
    LET failed(e) == [err |-> e, content |-> NoContent, fs |-> fs, copied |-> {}]
    IN  IF feature.none THEN failed("TypeError")
        ELSE IF <<"T", "i", "t", "l", "e">> \notin DOMAIN prop THEN failed("KeyError")
        ELSE IF prop[<<"T", "i", "t", "l", "e">>].kind # "str" THEN failed("AttributeError")
        ELSE IF ~exists(fs, feature.file) THEN failed("FileNotFoundError")
        ELSE [err |-> "",
              content |-> [id |-> page.id, blobs |-> blobs,
                           properties |->
                               Put(prop, <<"f", "e", "a", "t", "u", "r", "e", "I", "m", "a",
                                           "g", "e">>,
                                   StrValue(feature_image_dest(prop[<<"T", "i", "t", "l",
                                                                      "e">>].str,
                                                               feature.file))),
                           header |-> NoBlob, footer |-> NoBlob],
              fs |-> fs,
              copied |-> {[path |-> <<".", ".", "/", "a", "s", "s", "e", "t", "s", "/">>
                                       \o feature_image_dest(prop[<<"T", "i", "t", "l",
                                                                    "e">>].str,
                                                             feature.file),
                           data |-> fs[feature.file], doc |-> doc,
                           by |-> "provider"]}]

\* lines 294-311, given the parsed blocks
ParseProperties(doc, page, blocks, props) ==
    IF props.err # "" THEN [err |-> props.err, content |-> NoContent, fs |-> blocks.st.fs,
                            copied |-> {}]
    ELSE CopyThumbnail(doc, page, blocks.blobs, props.prop,
                       FeatureImageFile(blocks.blobs, [none |-> FALSE, file |-> <<>>]),
                       blocks.st.fs)

\* lines 293-311, given the parsed blocks
ParsePage(doc, page, blocks) ==
    IF blocks.err # "" THEN [err |-> blocks.err, content |-> NoContent, fs |-> blocks.st.fs,
                             copied |-> {}]
    ELSE ParseProperties(doc, page, blocks, parse_properties(page.properties))

\* lines 290-311 on a page [id, properties, blocks] whose blocks were fetched
async_fetch_and_parse_page_content(doc, page, fs) ==
    ParsePage(doc, page, ParseEach(page.blocks, [img_count |-> 0, fs |-> fs]))

\* ------------------------------------------------------------------------
\* formatter.py: HugoFormatter.async_process

key_order == <<<<"T", "i", "t", "l", "e">>, <<"f", "e", "a", "t", "u", "r", "e", "I", "m", "a",
                                              "g", "e">>, <<"D", "a", "t", "e">>, <<"T", "a",
                                                                                    "g",
                                                                                    "s">>, <<"S",
                                                                                             "u",
                                                                                             "m",
                                                                                             "m",
                                                                                             "a",
                                                                                             "r",
                                                                                             "y">>,
               <<"C", "a", "t", "e", "g", "o", "r", "i", "e", "s">>, <<"L", "e", "s", "e", "d",
                                                                       "a", "u", "e", "r">>>>

\* repr(s) of a str without backslashes or control characters
ReprStr(s) ==
    IF Contains(s, <<"'">>) /\ ~Contains(s, <<"\"">>) THEN <<"\"">> \o s \o <<"\"">>
    ELSE <<"'">> \o Concat([i \in 1..Len(s) |-> IF s[i] = "'" THEN <<"\\", "'">> ELSE <<s[i]>>])
             \o <<"'">>

\* f"{v}" of a property value
FormatValue(v) ==
    IF v.kind = "list"
    THEN <<"[">> \o Join(<<",", " ">>, [i \in 1..Len(v.list) |-> ReprStr(v.list[i])]) \o <<"]">>
    ELSE v.str

\* lines 31-39: "<k>: <v>" for the ordered keys whose value is truthy
header_props(properties) ==
    LET kept == SelectSeq(key_order,
                          LAMBDA k : k \in DOMAIN properties /\ Truthy(properties[k]))
    IN  [i \in 1..Len(kept) |-> kept[i] \o <<":", " ">> \o FormatValue(properties[kept[i]])]

\* lines 31-35: the properties restricted to key_order
sorted_data(properties) ==
    [k \in {key_order[i] : i \in 1..Len(key_order)} \cap DOMAIN properties |-> properties[k]]

\* lines 41-56
header_blob(properties) ==
    Blob(<<"h", "e", "a", "d", "e", "r">>, "paragraph",
         <<Ann(<<"-", "-", "-",
                 "\n">>), Ann(Join(<<"\n">>, header_props(properties))), Ann(<<"\n", "-", "-",
                                                                               "-", "\n">>)>>,
         <<>>)

Formatter_async_process(content) ==
    IF <<"#", " ", "S", "t", "a", "t", "u", "s">> \notin DOMAIN content.properties
    THEN [err |-> "KeyError", content |-> content]
    ELSE [err |-> "",
          content |-> [id |-> content.id, blobs |-> content.blobs,
                       properties |-> sorted_data(Without(content.properties, <<"#", " ", "S",
                                                                                "t", "a", "t",
                                                                                "u", "s">>)),
                       header |-> header_blob(Without(content.properties, <<"#", " ", "S", "t",
                                                                            "a", "t", "u",
                                                                            "s">>)),
                       footer |-> NoBlob]]

\* ------------------------------------------------------------------------
\* Raw blocks and raw properties as the Notion API returns them

RawText(text) ==
    [plain_text |-> text, href |-> <<>>, type |-> "text", bold |-> FALSE, italic |-> FALSE,
     strikethrough |-> FALSE, underline |-> FALSE, code |-> FALSE, color |-> <<"d", "e", "f",
                                                                               "a", "u", "l",
                                                                               "t">>]

NoRef == [present |-> FALSE, url |-> <<>>]

RawContent ==
    [rich_text |-> <<>>, caption |-> <<>>, file |-> NoRef, external |-> NoRef,
     expression |-> <<>>, cells |-> <<>>, language |-> <<>>, table_width |-> 0,
     checked |-> FALSE, is_toggleable |-> FALSE]

RawParagraph(id, text) ==
    [id |-> id, type |-> "paragraph",
     content |-> [RawContent EXCEPT !.rich_text = <<RawText(text)>>], children |-> <<>>]

RawImage(id, caption, url) ==
    [id |-> id, type |-> "image",
     content |-> [RawContent EXCEPT !.caption = <<RawText(caption)>>,
                                    !.file = [present |-> TRUE, url |-> url]],
     children |-> <<>>]

RawToggle(id, text) ==
    [id |-> id, type |-> "toggle",
     content |-> [RawContent EXCEPT !.rich_text = <<RawText(text)>>,
                                    !.is_toggleable = TRUE],
     children |-> <<RawParagraph(id \o <<"c">>, text)>>]

NoValue ==
    [kind |-> "none", scalar |-> <<>>, names |-> <<>>, name |-> <<>>, type |-> <<>>,
     typed |-> <<>>, prefix |-> <<>>, number |-> <<>>, start |-> <<>>]

Entry(key, type, c) == [key |-> key, type |-> type, title |-> <<>>, c |-> c, rich_text |-> <<>>]

TitleEntry(text) == [Entry(<<"N", "a", "m", "e">>, <<"t", "i", "t", "l",
                                                     "e">>, NoValue) EXCEPT !.title = <<text>>]

StatusEntry == Entry(<<"#", " ", "S", "t", "a", "t", "u", "s">>, <<"s", "t", "a", "t", "u",
                                                                   "s">>, [NoValue EXCEPT !.kind = "dict",
                                                                   !.name = <<"D", "o", "n",
                                                                              "e">>])

TagsEntry ==
    Entry(<<"T", "a", "g", "s">>, <<"m", "u", "l", "t", "i", "_", "s", "e", "l", "e", "c",
                                    "t">>,
          [NoValue EXCEPT !.kind = "list", !.names = << <<<<"x">>>>, <<>>, <<<<"y">>>> >>])

DateEntry == Entry(<<"D", "a", "t", "e">>, <<"d", "a", "t",
                                             "e">>, [NoValue EXCEPT !.kind = "dict",
                                             !.start = <<"2", "0", "2", "4", "-", "0", "1",
                                                         "-", "0", "2">>])

RelationEntry == Entry(<<"P", "a", "r", "e", "n", "t">>, <<"r", "e", "l", "a", "t", "i", "o",
                                                           "n">>, [NoValue EXCEPT !.kind = "list"])

SummaryEntry ==
    [Entry(<<"S", "u", "m", "m", "a", "r", "y">>, <<"r", "i", "c", "h", "_", "t", "e", "x",
                                                    "t">>, [NoValue EXCEPT !.kind = "list",
                                                    !.names = << <<>> >>])
        EXCEPT !.rich_text = <<[content |-> <<"s">>]>>]

\* ------------------------------------------------------------------------
\* Direct calls of the renderer's functions: the argument is drawn in the
\* initial state, the call is one step.

MaxNameLen == 3
MaxCaptionLen == 4
MaxSegments == 4
MaxBlobs == 2
MaxRuns == 3
MaxWidth == 3
MaxRows == 3
MaxEntries == 3

\* all sequences over S of length at most n
BoundedSeq(S, n) == UNION {[1..k -> S] : k \in 0..n}

runVars == <<pages, task, finished, parsed, cur, cleanups, tmp_cache, formatted, exported,
             asked, answer, copy_failed, log, raised>>

\* the runner has not been started; the per-page state has the one slot a
\* direct call of the exporter uses
\* no exception has left async_run
NotRaised == [err |-> "", doc |-> 0]

RunnerIdle ==
    /\ pages = <<>> /\ task = <<>> /\ finished = <<>> /\ parsed = <<>> /\ cur = 0
    /\ cleanups = 0 /\ tmp_cache = TRUE /\ formatted = <<>> /\ exported = <<"">>
    /\ asked = <<0>> /\ answer = <<<<>>>> /\ copy_failed = {} /\ log = <<>>
    /\ raised = NotRaised

NameChars == {"A", "b", " ", "!", "1", "_", "-", ".", "/"}
PostName == <<"M", "y", " ", "P", "o", "s", "t", "!", " ", "#", "1">>
Names == BoundedSeq(NameChars, MaxNameLen) \cup {PostName}

CaptionChars == {"a", " ", "\\", "\n"}
Captions == BoundedSeq(CaptionChars, MaxCaptionLen) \cup {<<"C", "a", "p", "t", "i", "o", "n",
                                                            " ", "t", "e", "x", "t", "\\", "A",
                                                            "l", "t", " ", "t", "e", "x", "t">>}

Segments == {<<"a">>, <<"i", "m", "g", "_", "1", ".", "p", "n", "g">>, <<>>}
Paths == {Join(<<"/">>, segs) : segs \in BoundedSeq(Segments, MaxSegments) \ {<<>>}}

ImageCaptions == {<<>>, <<Ann(<<"f", "e", "a", "t", "u", "r", "e", "i", "m", "a", "g",
                                "e">>)>>, <<Ann(<<" ", "c", "a", "p", " ", "\\", " ", "a", "l",
                                                  "t">>)>>}

ImageBlobs ==
    {[Blob(<<"i">>, "image", rt, <<>>) EXCEPT !.file = p] : rt \in ImageCaptions, p \in Paths}

\* block types of the source for which MarkdownStyler has no method
UnsupportedTypes == {"toggle", "bookmark"}

CachedImage == <<"d", "o", "w", "n", "l", "o", "a", "d", "/", "i", "m", "g", "_", "1", ".",
                 "p", "n", "g">>
CopiedImage == <<"o", "u", "t", "/", "p", "o", "s", "t", "/", "p", "o", "s", "t", "_", "i",
                 "m", "a", "g", "e", "s", "/", "i", "m", "g", "_", "1", ".", "p", "n", "g">>
MissingImage == <<"d", "o", "w", "n", "l", "o", "a", "d", "/", "i", "m", "g", "_", "9", ".",
                  "p", "n", "g">>

Plain(text) == <<Ann(text)>>
Styled(text) == <<[Ann(text) EXCEPT !.bold = TRUE, !.italic = TRUE], Ann(<<" ", "z">>)>>

Leaf(type) == [Blob(<<"k">>, type, Plain(<<"k">>), <<>>) EXCEPT !.url = <<"h", "t", "t", "p",
                                                                          "s", ":", "/", "/",
                                                                          "y", "o", "u", "t",
                                                                          "u", ".", "b", "e",
                                                                          "/", "a", "b", "c",
                                                                          "1", "2", "3">>]

Row(cells) == [Blob(<<"r">>, "table_row", <<>>, <<>>) EXCEPT !.table_cells = cells]

ChildLists ==
    {<<>>,
     <<Leaf("paragraph")>>,
     <<Leaf("toggle")>>,
     <<Blob(<<"n">>, "numbered_list_item",
             Plain(<<"n">>), <<Leaf("to_do")>>), Leaf("divider")>>,
     <<[Leaf("image") EXCEPT !.file = MissingImage]>>,
     <<[Leaf("image") EXCEPT !.file = CachedImage, !.rich_text = Plain(<<"f", "e", "a", "t",
                                                                         "u", "r", "e", "i",
                                                                         "m", "a", "g",
                                                                         "e">>)]>>,
     <<Row(<<Plain(<<"h">>), Plain(<<"i">>)>>), Row(<<Styled(<<"x">>), <<>>>>)>>}

RenderBlobs ==
    {[Blob(<<"b">>, type, rt, kids) EXCEPT !.file = file, !.table_width = width,
                                         !.table_cells = cells, !.url = url] :
        type \in Variants \cup UnsupportedTypes,
        rt \in {<<>>, Plain(<<"f", "e", "a", "t", "u", "r", "e", "i", "m", "a", "g",
                              "e">>), Styled(<<"x">>)},
        kids \in ChildLists,
        file \in {<<>>, CachedImage, MissingImage},
        width \in {0, 2},
        cells \in {<<>>, <<Plain(<<"c">>), <<>>>>},
        url \in {<<>>, <<"h", "t", "t", "p", "s", ":", "/", "/", "y", "o", "u", "t", "u", ".",
                         "b", "e", "/", "a", "b", "c", "1", "2", "3">>}}

\* one run "x" under every combination of the style flags and the link
FlaggedRuns ==
    {[Ann(<<"x">>) EXCEPT !.bold = b, !.italic = i, !.strikethrough = s, !.underline = u,
                        !.code = c, !.href = h, !.is_equation = e, !.highlight = m] :
        b \in BOOLEAN, i \in BOOLEAN, s \in BOOLEAN, u \in BOOLEAN, c \in BOOLEAN,
        h \in {<<>>, <<"h", "t", "t", "p", ":", "/", "/", "u">>}, e \in BOOLEAN, m \in BOOLEAN}

\* runs with and without text
MixedRuns ==
    {Ann(<<"a">>), [Ann(<<"b">>) EXCEPT !.bold = TRUE, !.italic = TRUE], Ann(<<>>),
     [Ann(<<>>) EXCEPT !.bold = TRUE, !.href = <<"h", "t", "t", "p", ":", "/", "/", "u">>]}

AnnotationLists == {<<t>> : t \in FlaggedRuns} \cup BoundedSeq(MixedRuns, MaxRuns)

\* rows of two cells, one of them with an empty second cell, and a row
\* without cells
TableRows == {Row(<<Plain(<<"h">>), Plain(<<"i">>)>>), Row(<<Styled(<<"x">>), <<>>>>), Row(<<>>)}

Tables ==
    {[Blob(<<"t">>, "table", <<>>, rows) EXCEPT !.table_width = width] :
        width \in 0..MaxWidth, rows \in BoundedSeq(TableRows, MaxRows)}

\* a URL that serves a png and one that serves a web page
PictureUrl == <<"h", "t", "t", "p", "s", ":", "/", "/", "f", "i", "l", "e", "s", "/", "p", ".",
                "p", "n", "g">>
WebPageUrl == <<"h", "t", "t", "p", "s", ":", "/", "/", "n", "o", "t", "i", "o", "n", "/", "p",
                "a", "g", "e">>

\* children of a raw block: none, an image and a paragraph, a paragraph
\* that has an image below it
RawChildLists ==
    {<<>>,
     <<RawImage(<<"c", "1">>, <<"c", "a", "p">>, PictureUrl), RawParagraph(<<"c",
                                                                             "2">>, <<"k">>)>>,
     <<[RawParagraph(<<"c", "3">>, <<"k">>) EXCEPT !.children = <<RawImage(<<"c", "4">>, <<"c",
                                                                                           "a",
                                                                                           "p">>, PictureUrl)>>]>>}

\* raw blocks with every combination of the payload keys parse_block reads
RawBlocks ==
    {[id |-> <<"b">>, type |-> type,
      content |-> [RawContent EXCEPT !.rich_text = rich_text, !.caption = caption,
                                     !.file = file, !.external = external,
                                     !.expression = expression, !.cells = cells,
                                     !.table_width = width],
      children |-> children] :
        type \in {"paragraph", "image", "video", "equation", "table", "table_row"},
        rich_text \in {<<>>, <<RawText(<<"t">>), RawText(<<"f", "e", "a", "t", "u", "r", "e",
                                                           "i", "m", "a", "g", "e">>)>>},
        caption \in {<<>>, <<RawText(<<"c", "a", "p">>)>>},
        file \in {NoRef, [present |-> TRUE, url |-> PictureUrl],
                  [present |-> TRUE, url |-> WebPageUrl]},
        external \in {NoRef, [present |-> TRUE, url |-> <<"h", "t", "t", "p", "s", ":", "/",
                                                          "/", "y", "o", "u", "t", "u", ".",
                                                          "b", "e", "/", "a", "b", "c", "1",
                                                          "2", "3">>]},
        expression \in {<<>>, <<"e", "=", "1">>},
        cells \in {<<>>, << <<RawText(<<"c">>)>>, <<>> >>},
        width \in {0, 2},
        children \in RawChildLists}

\* a dict value with none of name, type, prefix and number, start
UnresolvedEntry == Entry(<<"D", "u", "e">>, <<"d", "a", "t",
                                              "e">>, [NoValue EXCEPT !.kind = "dict"])

FormulaEntry ==
    Entry(<<"S", "c", "o", "r", "e">>, <<"f", "o", "r", "m", "u", "l", "a">>,
          [NoValue EXCEPT !.kind = "dict", !.type = <<"s", "t", "r", "i", "n",
                                                      "g">>, !.typed = <<"f">>])

UniqueIdEntry ==
    Entry(<<"I", "D">>, <<"u", "n", "i", "q", "u", "e", "_", "i", "d">>,
          [NoValue EXCEPT !.kind = "dict", !.prefix = <<"P">>, !.number = <<"7">>])

EmptyEntry == Entry(<<"E", "d", "i", "t", "e", "d">>, <<"l", "a", "s", "t", "_", "e", "d", "i",
                                                        "t", "e", "d", "_", "t", "i", "m",
                                                        "e">>, NoValue)

FloatEntry == Entry(<<"P", "r", "i", "c", "e">>, <<"n", "u", "m", "b", "e",
                                                   "r">>, [NoValue EXCEPT !.kind = "other"])

RawEntries ==
    {TitleEntry(<<"A">>), StatusEntry, TagsEntry, DateEntry, RelationEntry, SummaryEntry,
     UnresolvedEntry, FormulaEntry, UniqueIdEntry, EmptyEntry, FloatEntry}

\* the raw properties of a page: entries with distinct keys, in any order
Metadatas ==
    {es \in BoundedSeq(RawEntries, MaxEntries) :
        \A i, j \in 1..Len(es) : es[i].key = es[j].key => i = j}

InitCall ==
    /\ RunnerIdle
    /\ publish = {}
    /\ pc = "call"
    /\ ret = <<>>
    /\ \/ fn \in {"sanitize_path", "NotionProvider.sanitize_path"} /\ arg \in Names
          /\ disk = << >>
       \/ fn = "parse_caption" /\ arg \in Captions /\ disk = << >>
       \/ fn = "_style_content_with_annotation" /\ arg \in AnnotationLists /\ disk = << >>
       \/ fn = "table" /\ arg \in Tables /\ disk = << >>
       \/ fn = "parse_block" /\ arg \in RawBlocks
          /\ disk \in {<< >>, [p \in {CachedImage} |-> <<"b", "y", "t", "e", "s">>]}
       \/ fn = "parse_properties" /\ arg \in Metadatas /\ disk = << >>
       \/ fn = "image" /\ arg \in ImageBlobs
          /\ disk \in {<< >>, [p \in {arg.file} |-> <<"b", "y", "t", "e", "s">>]}
       \/ fn = "process" /\ arg \in RenderBlobs \cup {NoBlob}
          /\ disk \in {<< >>, [p \in {CachedImage} |-> <<"b", "y", "t", "e", "s">>]}

Returns(value) ==
    /\ ret' = value
    /\ pc' = "return"
    /\ UNCHANGED <<disk, publish, fn, arg, runVars>>

CallSanitizePath ==
    /\ pc = "call" /\ fn = "sanitize_path"
    /\ Returns(sanitize_path(arg))

CallProviderSanitizePath ==
    /\ pc = "call" /\ fn = "NotionProvider.sanitize_path"
    /\ Returns(NotionProvider_sanitize_path(arg))

CallParseCaption ==
    /\ pc = "call" /\ fn = "parse_caption"
    /\ Returns(parse_caption(arg))

CallStyleContent ==
    /\ pc = "call" /\ fn = "_style_content_with_annotation"
    /\ Returns(_style_content_with_annotation(arg))

CallTable ==
    /\ pc = "call" /\ fn = "table"
    /\ Returns(table(arg, 0, disk))

\* parse_block on a new NotionParser (img_count = 0)
CallParseBlock ==
    /\ pc = "call" /\ fn = "parse_block"
    /\ \E r \in {parse_block(arg, [img_count |-> 0, fs |-> disk])} :
          /\ ret' = [err |-> r.err, blob |-> r.blob]
          /\ disk' = r.st.fs
    /\ pc' = "return"
    /\ UNCHANGED <<publish, fn, arg, runVars>>

CallParseProperties ==
    /\ pc = "call" /\ fn = "parse_properties"
    /\ Returns(parse_properties(arg))

CallImage ==
    /\ pc = "call" /\ fn = "image"
    /\ Returns(image(arg, 0, disk))

CallProcess ==
    /\ pc = "call" /\ fn = "process"
    /\ Returns(process(arg, 0, disk))

NextCall ==
    \/ CallSanitizePath
    \/ CallProviderSanitizePath
    \/ CallParseCaption
    \/ CallStyleContent
    \/ CallTable
    \/ CallParseBlock
    \/ CallParseProperties
    \/ CallImage
    \/ CallProcess

SpecCall == InitCall /\ [][NextCall]_vars

Returned(f) == pc = "return" /\ fn = f

\* ------------------------------------------------------------------------
\* Direct calls of MarkdownExporter.async_process on a Document

\* a front-matter header as the formatter builds it
HeaderBlob ==
    Blob(<<"h", "e", "a", "d", "e", "r">>, "paragraph",
         <<Ann(<<"-", "-", "-", "\n">>), Ann(<<"T", "i", "t", "l", "e", ":", " ", "'", "T",
                                               "'">>), Ann(<<"\n", "-", "-", "-",
                                                             "\n">>)>>, <<>>)

FeatureImage ==
    [Blob(<<"f">>, "image", Plain(<<"f", "e", "a", "t", "u", "r", "e", "i", "m", "a", "g",
                                    "e">>), <<>>) EXCEPT !.file = CachedImage]

BodyBlobs ==
    {Blob(<<"p">>, "paragraph", Plain(<<"x">>), <<>>),
     FeatureImage,
     [Blob(<<"i">>, "image", Plain(<<"c", "a", "p">>), <<>>) EXCEPT !.file = CachedImage],
     [Blob(<<"m">>, "image", Plain(<<"c", "a", "p">>), <<>>) EXCEPT !.file = MissingImage],
     Blob(<<"q">>, "paragraph", Plain(<<"i", "n", "t", "r", "o">>), <<FeatureImage>>),
     [Blob(<<"l">>, "bulleted_list_item", Plain(<<"i", "t", "e", "m">>), <<Leaf("to_do")>>)
          EXCEPT !.file = CachedImage],
     Blob(<<"t">>, "toggle", Plain(<<"x">>), <<>>)}

Footers == {NoBlob, Blob(<<"f", "o", "o", "t", "e", "r">>, "paragraph", Plain(<<"b", "y",
                                                                                "e">>), <<>>), FeatureImage}

Documents ==
    {[id |-> <<"P", "o", "s", "t", " ",
               "1">>, properties |-> <<>>, blobs |-> blobs, header |-> header,
      footer |-> footer] :
        blobs \in BoundedSeq(BodyBlobs, MaxBlobs),
        header \in {NoBlob, HeaderBlob},
        footer \in Footers}

Outcomes ==
    {"returned", "NameError", "ValueError", "AssertionError", "SameFileError",
     "KeyError", "TypeError"}

InitExport ==
    /\ RunnerIdle
    /\ publish = {}
    /\ pc = "call"
    /\ ret = <<>>
    /\ fn = "async_process"
    /\ arg \in Documents
    /\ disk = [p \in {CachedImage} |-> <<"b", "y", "t", "e", "s">>]

CallAsyncProcess ==
    /\ pc = "call" /\ fn = "async_process"
    /\ \E outcome \in Outcomes :
          /\ async_process(1, arg, outcome)
          /\ ret' = outcome
    /\ pc' = "return"
    /\ UNCHANGED <<fn, arg, pages, task, finished, parsed, cur, cleanups, tmp_cache,
                   formatted, exported, raised>>

NextExport == CallAsyncProcess

SpecExport == InitExport /\ [][NextExport]_vars

\* the text at the path async_process writes the post to
WrittenPost == disk[post_full_path(sanitize_path(arg.id))]

PostWritten == post_full_path(sanitize_path(arg.id)) \in DOMAIN disk

\* ------------------------------------------------------------------------
\* runner.py: Runner.async_run over NotionProvider.async_iterate
\*
\* pc is the position of the runner: "start" before the database query,
\* "await" in `yield await page`, "format" and "export" in the loop body of
\* async_run, "done" after async_run returned, "aborted" after an exception
\* left it.  task[i] is "running", "done" or the name of the exception the
\* coroutine of page i raised; finished lists the tasks as_completed has not
\* handed out yet, in completion order.

MaxPages == 2

UrlA == <<"h", "t", "t", "p", "s", ":", "/", "/", "f", "i", "l", "e", "s", "/", "a", ".", "p",
          "n", "g">>
UrlB == <<"h", "t", "t", "p", "s", ":", "/", "/", "f", "i", "l", "e", "s", "/", "b", ".", "p",
          "n", "g">>
UrlPhoto == <<"h", "t", "t", "p", "s", ":", "/", "/", "f", "i", "l", "e", "s", "/", "c", ".",
              "j", "p", "g">>

\* two pages that parse, format and export
PageA ==
    [id |-> <<"P", "o", "s", "t", " ", "A">>,
     properties |-> <<TitleEntry(<<"A">>), StatusEntry, TagsEntry, RelationEntry>>,
     blocks |-> <<RawImage(<<"a", "1">>, <<"f", "e", "a", "t", "u", "r", "e", "i", "m", "a",
                                           "g", "e">>, UrlA), RawParagraph(<<"a", "2">>, <<"h",
                                                                                           "e",
                                                                                           "l",
                                                                                           "l",
                                                                                           "o">>)>>]

PageB ==
    [id |-> <<"P", "o", "s", "t", " ", "B">>,
     properties |-> <<StatusEntry, TitleEntry(<<"B">>), DateEntry, SummaryEntry>>,
     blocks |-> <<RawParagraph(<<"b", "1">>, <<"i", "n", "t", "r", "o">>), RawImage(<<"b",
                                                                                      "2">>, <<"f",
                                                                                               "e",
                                                                                               "a",
                                                                                               "t",
                                                                                               "u",
                                                                                               "r",
                                                                                               "e",
                                                                                               "i",
                                                                                               "m",
                                                                                               "a",
                                                                                               "g",
                                                                                               "e">>, UrlB),
                  RawImage(<<"b", "3">>, <<"a", " ", "p", "h", "o", "t", "o">>, UrlPhoto)>>]

\* a page without a feature image
PageNoFeature ==
    [id |-> <<"P", "o", "s", "t", " ",
              "C">>, properties |-> <<TitleEntry(<<"C">>), StatusEntry>>,
     blocks |-> <<RawParagraph(<<"c", "1">>, <<"t", "e", "x", "t">>)>>]

\* a page without the "# Status" property
PageNoStatus ==
    [id |-> <<"P", "o", "s", "t", " ", "D">>, properties |-> <<TitleEntry(<<"D">>)>>,
     blocks |-> <<RawImage(<<"d", "1">>, <<"f", "e", "a", "t", "u", "r", "e", "i", "m", "a",
                                           "g", "e">>, UrlA)>>]

\* a page with a block the exporter has no renderer for
PageToggle ==
    [id |-> <<"P", "o", "s", "t", " ",
              "E">>, properties |-> <<TitleEntry(<<"E">>), StatusEntry>>,
     blocks |-> <<RawImage(<<"e", "1">>, <<"f", "e", "a", "t", "u", "r", "e", "i", "m", "a",
                                           "g", "e">>, UrlB), RawToggle(<<"e", "2">>, <<"m",
                                                                                        "o",
                                                                                        "r",
                                                                                        "e">>)>>]

Pages == {PageA, PageB, PageNoFeature, PageNoStatus, PageToggle}

\* the pages a database query returns: distinct pages, in any order
PageLists ==
    {ps \in BoundedSeq(Pages, MaxPages) : \A i, j \in 1..Len(ps) : ps[i] = ps[j] => i = j}

Init ==
    /\ pc = "start"
    /\ disk = [p \in {} |-> <<>>]
    /\ publish = {}
    /\ pages = <<>> /\ task = <<>> /\ finished = <<>> /\ parsed = <<>> /\ cur = 0
    /\ cleanups = 0 /\ tmp_cache = TRUE /\ formatted = <<>> /\ exported = <<>>
    /\ asked = <<>> /\ answer = <<>> /\ copy_failed = {} /\ log = <<>>
    /\ raised = NotRaised
    /\ fn = "run" /\ arg = <<>> /\ ret = <<>>

\* provider.py line 322: the database query answers, or fails
FetchPagesFromDb ==
    /\ pc = "start"
    /\ \E ps \in PageLists, ok \in BOOLEAN :
          /\ pages' = (IF ok THEN ps ELSE <<>>)
          /\ task' = [i \in 1..Len(pages') |-> "running"]
          /\ parsed' = [i \in 1..Len(pages') |-> NoContent]
          /\ formatted' = [i \in 1..Len(pages') |-> NoContent]
          /\ exported' = [i \in 1..Len(pages') |-> ""]
          /\ asked' = [i \in 1..Len(pages') |-> 0]
          /\ answer' = [i \in 1..Len(pages') |-> <<>>]
          /\ (ok \/ ps = <<>>)
          /\ pc' = (IF ok THEN "await" ELSE "aborted")
          /\ raised' = (IF ok THEN raised ELSE [err |-> "APIResponseError", doc |-> 0])
    /\ UNCHANGED <<disk, publish, finished, cur, cleanups, tmp_cache, copy_failed, log,
                   fn, arg, ret>>

\* the coroutine of page i runs to its end while the generator awaits: the
\* fetch of its blocks fails, or they are parsed (lines 290-311)
FetchAndParse ==
    /\ pc = "await"
    /\ \E i \in 1..Len(pages), fetched \in BOOLEAN :
          /\ task[i] = "running"
          /\ finished' = Append(finished, i)
          /\ IF ~fetched
             THEN /\ task' = [task EXCEPT ![i] = "APIResponseError"]
                  /\ UNCHANGED <<disk, publish, parsed>>
             ELSE \E r \in {async_fetch_and_parse_page_content(i, pages[i], disk)} :
                     /\ disk' = r.fs
                     /\ publish' = publish \cup r.copied
                     /\ parsed' = [parsed EXCEPT ![i] = r.content]
                     /\ task' = [task EXCEPT ![i] = IF r.err = "" THEN "done" ELSE r.err]
    /\ UNCHANGED <<pc, pages, cur, cleanups, tmp_cache, formatted, exported, asked, answer,
                   copy_failed, log, raised, fn, arg, ret>>

\* provider.py line 331 and runner.py line 40: the next completed page is
\* yielded to the runner, or its exception leaves async_iterate and async_run
NextPage ==
    /\ pc = "await"
    /\ finished # <<>>
    /\ finished' = Tail(finished)
    /\ IF task[Head(finished)] = "done"
       THEN /\ cur' = Head(finished)
            /\ pc' = "format"
            /\ UNCHANGED raised
       ELSE /\ raised' = [err |-> task[Head(finished)], doc |-> Head(finished)]
            /\ pc' = "aborted"
            /\ UNCHANGED cur
    /\ UNCHANGED <<disk, publish, pages, task, parsed, cleanups, tmp_cache, formatted,
                   exported, asked, answer, copy_failed, log, fn, arg, ret>>

\* runner.py line 43
Format ==
    /\ pc = "format"
    /\ \E r \in {Formatter_async_process(parsed[cur])} :
          IF r.err # ""
          THEN /\ raised' = [err |-> r.err, doc |-> cur]
               /\ pc' = "aborted"
               /\ UNCHANGED formatted
          ELSE /\ formatted' = [formatted EXCEPT ![cur] = r.content]
               /\ pc' = "export"
               /\ UNCHANGED raised
    /\ UNCHANGED <<disk, publish, pages, task, finished, parsed, cur, cleanups, tmp_cache,
                   exported, asked, answer, copy_failed, log, fn, arg, ret>>

\* runner.py line 46
Export ==
    /\ pc = "export"
    /\ \E outcome \in Outcomes :
          /\ async_process(cur, formatted[cur], outcome)
          /\ exported' = [exported EXCEPT ![cur] = outcome]
          /\ pc' = (IF outcome = "returned" THEN "await" ELSE "aborted")
          /\ raised' = (IF outcome = "returned" THEN raised
                        ELSE [err |-> outcome, doc |-> cur])
    /\ UNCHANGED <<pages, task, finished, parsed, cur, cleanups, tmp_cache, formatted,
                   fn, arg, ret>>

\* provider.py lines 333-334 and 313-318, runner.py line 47: every page was
\* handed out, cleanup removes the cache directory and async_run returns
Complete ==
    /\ pc = "await"
    /\ finished = <<>>
    /\ \A i \in 1..Len(pages) : task[i] # "running"
    /\ tmp_cache' = FALSE
    /\ cleanups' = cleanups + 1
    /\ log' = Append(log, Logged("info", "Cleaned up tmp dir for caching images"))
    /\ pc' = "done"
    /\ UNCHANGED <<disk, publish, pages, task, finished, parsed, cur, formatted, exported,
                   asked, answer, copy_failed, raised, fn, arg, ret>>

Next ==
    \/ FetchPagesFromDb
    \/ FetchAndParse
    \/ NextPage
    \/ Format
    \/ Export
    \/ Complete

Spec == Init /\ [][Next]_vars

\* ------------------------------------------------------------------------
\* Properties of the renderer's functions (under SpecCall)

\* the renderer the source defines under each variant's name
C7_RendererOf(blob, indent, fs) ==
    CASE blob.type = "paragraph"          -> paragraph(blob, indent, fs)
      [] blob.type = "heading_1"          -> heading_1(blob, indent, fs)
      [] blob.type = "heading_2"          -> heading_2(blob, indent, fs)
      [] blob.type = "heading_3"          -> heading_3(blob, indent, fs)
      [] blob.type = "divider"            -> divider(blob, indent, fs)
      [] blob.type = "equation"           -> equation(blob, indent, fs)
      [] blob.type = "code"               -> code(blob, indent, fs)
      [] blob.type = "bulleted_list_item" -> _list_item(blob, <<"-">>, indent, fs)
      [] blob.type = "numbered_list_item" -> _list_item(blob, <<"1", ".">>, indent, fs)
      [] blob.type = "to_do"              -> to_do(blob, indent, fs)
      [] blob.type = "quote"              -> quote(blob, indent, fs)
      [] blob.type = "table"              -> table(blob, indent, fs)
      [] blob.type = "table_row"          -> table_row(blob, indent, fs)
      [] blob.type = "image"              -> image(blob, indent, fs)
      [] blob.type = "video"              -> video(blob, indent, fs)
      [] blob.type = "column_list"        -> column_list(blob, indent, fs)
      [] blob.type = "column"             -> _list_item(blob, <<"-", "c", "o", "l", "u", "m",
                                                                "n">>, indent, fs)
      [] blob.type = "callout"            -> callout(blob, indent, fs)

\* C7: MarkdownStyler.process returns "" for a null node, raises the
\* unsupported-variant error (ValueError) for a node whose variant has no
\* renderer, and for each variant of the closed set returns "\n" followed by
\* that variant's renderer output (or raises what that renderer raises).
C7_ProcessDispatch ==
    Returned("process") =>
        /\ arg.type = "None" => ret = Ok(<<>>)
        /\ arg.type \in UnsupportedTypes => ret.err = "ValueError"
        /\ arg.type \in Variants =>
              LET r == C7_RendererOf(arg, 0, disk)
              IN  IF r.err = "" THEN ret = Ok(<<"\n">> \o r.val) ELSE ret = r

C7_Witness ==
    /\ Returned("process")
    /\ arg.type = "toggle"
    /\ ret.err = "ValueError"

\* what one character of the name contributes to the sanitized name
C8_CharImage(c) ==
    IF c = " " THEN <<"_">>
    ELSE IF Lower(c) \in PathChars THEN <<Lower(c)>>
    ELSE <<>>

C8_Expected(name) == Concat([i \in 1..Len(name) |-> C8_CharImage(name[i])])

C8_Sanitized == Returned("sanitize_path") \/ Returned("NotionProvider.sanitize_path")

\* C8 (as amended): sanitize_path replaces spaces with '_', lowercases, and
\* strips every character outside [a-zA-Z0-9-_.]; "My Post! #1" yields
\* "my_post_1" (both spaces become '_').
C8_SanitizePath ==
    C8_Sanitized =>
        /\ ret = C8_Expected(arg)
        /\ arg = PostName => ret = <<"m", "y", "_", "p", "o", "s", "t", "_", "1">>

\* C8 (as claimed): ... such that "My Post! #1" yields "my_post1".
C8_Original ==
    C8_Sanitized =>
        /\ ret = C8_Expected(arg)
        /\ arg = PostName => ret = <<"m", "y", "_", "p", "o", "s", "t", "1">>

C8_Witness ==
    /\ Returned("sanitize_path")
    /\ arg = PostName
    /\ ret = <<"m", "y", "_", "p", "o", "s", "t", "_", "1">>

\* C9: parse_caption splits on the first backslash into (caption, alt), both
\* trimmed; with no backslash it returns alt = "" and caption = the whole
\* input trimmed.
C9_ParseCaption ==
    Returned("parse_caption") =>
        LET i == IndexOf(arg, "\\")
        IN  IF i > 0
            THEN ret = <<Strip(SubSeq(arg, 1, i - 1)), Strip(SubSeq(arg, i + 1, Len(arg)))>>
            ELSE ret = <<Strip(arg), <<>>>>

\* the path without its first k '/'-separated segments, each remaining
\* segment preceded by its '/' ("" when the path has at most k segments)
RECURSIVE C10_Rest(_, _)
C10_Rest(path, k) ==
    IF k = 0 THEN <<"/">> \o path
    ELSE LET i == IndexOf(path, "/")
         IN  IF i = 0 THEN <<>> ELSE C10_Rest(SubSeq(path, i + 1, Len(path)), k - 1)

\* the value of src="..." in an image shortcode
C10_SrcOf(shortcode) ==
    LET open == <<"{", "{", "<", " ", "i", "m", "g", " ", "c", "l", "a", "s", "s", "=", "\"",
                  "b", "l", "o", "g", "-", "i", "m", "g", "-", "c", "e", "n", "t", "e", "r",
                  "\"", " ", "w", "i", "d", "t", "h", "=", "\"", "8", "0", "0", "\"", " ", "s",
                  "r", "c", "=", "\"">>
        rest == SubSeq(shortcode, Len(open) + 1, Len(shortcode))
    IN  SubSeq(rest, 1, IndexOf(rest, "\"") - 1)

\* C10 (as amended): for every image Node whose file exists, the src emitted
\* is "images" followed by the file path's segments from the third on: the
\* first two segments are replaced (s1/s2/s3/.../sn yields images/s3/.../sn).
C10_ImageSrc ==
    (Returned("image") /\ ret.err = "") =>
        C10_SrcOf(ret.val) = <<"i", "m", "a", "g", "e", "s">> \o C10_Rest(arg.file, 2)

\* C10 (as claimed): the first segment is replaced by "images" and all the
\* remaining segments are kept (s1/s2/.../sn yields images/s2/.../sn).
C10_Original ==
    (Returned("image") /\ ret.err = "") =>
        C10_SrcOf(ret.val) = <<"i", "m", "a", "g", "e", "s">> \o C10_Rest(arg.file, 1)

C10_Witness ==
    /\ Returned("image")
    /\ ret.err = ""
    /\ arg.file = <<"a", "/", "a", "/", "i", "m", "g", "_", "1", ".", "p", "n", "g">>
    /\ C10_SrcOf(ret.val) = <<"i", "m", "a", "g", "e", "s", "/", "i", "m", "g", "_", "1", ".",
                              "p", "n", "g">>

\* ------------------------------------------------------------------------
\* Properties of the exporter (under SpecExport)

\* C1: for every Document handed to async_process, no line of the text
\* written to <name>.md contains the marker caption="featureimage".
C1_NoFeatureImageLine ==
    (Returned("async_process") /\ PostWritten) =>
        LET lines == Split(WrittenPost, "\n")
        IN  \A k \in 1..Len(lines) : ~Contains(lines[k], <<"c", "a", "p", "t", "i", "o", "n",
                                                           "=", "\"", "f", "e", "a", "t", "u",
                                                           "r", "e", "i", "m", "a", "g", "e",
                                                           "\"">>)

\* the answer recorded at the prompt of async_process is 'y' once stripped
\* and lowered
SaidYes(doc) ==
    /\ doc \in 1..Len(asked)
    /\ asked[doc] >= 1
    /\ LowerAll(Strip(answer[doc][Len(answer[doc])])) = <<"y">>

\* C4: the publish step asks once per document, copies nothing unless the
\* answer is 'y', and when a copy fails the failure is logged and
\* async_process returns normally.
C4_PublishStep ==
    Returned("async_process") =>
        /\ asked[1] <= 1
        /\ (ret = "returned" => asked[1] = 1)
        /\ (~SaidYes(1) => publish = {})
        /\ (1 \in copy_failed =>
               /\ ret = "returned"
               /\ \E k \in 1..Len(log) : log[k].level = "error")

\* ------------------------------------------------------------------------
\* Properties of a run (under Spec)

Ended == pc \in {"done", "aborted"}

\* C2: when a run over the pages of the database has ended, after all pages
\* or by the failure of one page, cleanup has run exactly once.
C2_CleanupExactlyOnce ==
    (Ended /\ (pc = "aborted" => raised.doc # 0)) => cleanups = 1

\* C3: when a run has ended, every page other than the one whose processing
\* raised, and whose own coroutine raised nothing, has been formatted and
\* exported.
C3_BatchContinues ==
    Ended =>
        \A i \in 1..Len(pages) :
            (i # raised.doc /\ task[i] \in {"running", "done"}) =>
                /\ formatted[i] # NoContent
                /\ exported[i] = "returned"

\* the writes into ../content and ../assets made for page doc
PublishedFor(doc) == {r \in publish : r.doc = doc}

\* C5 (as stated): every file in the publish tree was written for a page
\* whose prompt had been answered 'y'.
C5_Original == \A r \in publish : SaidYes(r.doc)

\* C5: before the prompt of a page is answered 'y', the only file written
\* into the publish tree for it is the thumbnail of its feature image,
\* ../assets/images/thumb_<title><ext>, copied once when the page is parsed;
\* the post and its images folder are copied only after the answer 'y'.
C5_PublishAfterConfirmation ==
    \A r \in publish :
        IF r.by = "provider"
        THEN /\ StartsWith(r.path, <<".", ".", "/", "a", "s", "s", "e", "t", "s", "/", "i",
                                     "m", "a", "g", "e", "s", "/", "t", "h", "u", "m", "b",
                                     "_">>)
             /\ \A q \in PublishedFor(r.doc) : q.by = "provider" => q = r
        ELSE SaidYes(r.doc)

C5_Witness ==
    \E r, q \in publish :
        /\ r.by = "exporter" /\ SaidYes(r.doc) /\ StartsWith(r.path, <<".", ".", "/", "c", "o",
                                                                       "n", "t", "e", "n", "t",
                                                                       "/">>)
        /\ q.by = "provider" /\ asked[q.doc] = 0 /\ q.doc # r.doc

\* the indices of the top-level image blocks of page i
ImageBlocks(i) == {k \in 1..Len(pages[i].blocks) : pages[i].blocks[k].type = "image"}

\* the files named by the image blobs of the parsed page i
ImageFiles(i) == {parsed[i].blobs[k].file : k \in ImageBlocks(i)}

\* C6: the file named by each image blob of a parsed page holds the bytes
\* served at the URL of its own block, and two parsed pages name no file in
\* common.
C6_ImageStateExclusive ==
    \A i \in 1..Len(pages) :
        task[i] = "done" =>
            /\ \A k \in ImageBlocks(i) :
                  /\ parsed[i].blobs[k].file \in DOMAIN disk
                  /\ disk[parsed[i].blobs[k].file] = BytesOf(pages[i].blocks[k].content.file.url)
            /\ \A j \in 1..Len(pages) :
                  (j # i /\ task[j] = "done") => ImageFiles(i) \cap ImageFiles(j) = {}

\* ------------------------------------------------------------------------
\* Properties of the styling of annotated text (under SpecCall)

\* the opening halves of the wrappers of a run, outermost first
C11_Opens(text) ==
    Concat(<<IF text.highlight THEN <<"<", "m", "a", "r", "k", ">">> ELSE <<>>,
             IF text.is_equation THEN <<"$", " ">> ELSE <<>>,
             IF text.href # <<>> THEN <<"[">> ELSE <<>>,
             IF text.code THEN <<"BACKTICK">> ELSE <<>>,
             IF text.underline THEN <<"<", "i", "n", "s", ">">> ELSE <<>>,
             IF text.strikethrough THEN <<"~", "~">> ELSE <<>>,
             IF text.italic THEN <<"_">> ELSE <<>>,
             IF text.bold THEN <<"*", "*">> ELSE <<>> >>)

\* the closing halves of the wrappers of a run, innermost first
C11_Closes(text) ==
    Concat(<<IF text.bold THEN <<"*", "*">> ELSE <<>>,
             IF text.italic THEN <<"_">> ELSE <<>>,
             IF text.strikethrough THEN <<"~", "~">> ELSE <<>>,
             IF text.underline THEN <<"<", "/", "i", "n", "s", ">">> ELSE <<>>,
             IF text.code THEN <<"BACKTICK">> ELSE <<>>,
             IF text.href # <<>> THEN <<"]", "(">> \o text.href \o <<")">> ELSE <<>>,
             IF text.is_equation THEN <<" ", "$">> ELSE <<>>,
             IF text.highlight THEN <<"<", "/", "m", "a", "r", "k", ">">> ELSE <<>> >>)

C11_Nested(text) == C11_Opens(text) \o text.plain_text \o C11_Closes(text)

C11_BoldItalicX == <<[Ann(<<"x">>) EXCEPT !.bold = TRUE, !.italic = TRUE]>>

\* C11: when every run of the list has text, each run is rendered as its
\* text wrapped by bold, italic, strikethrough, <ins>, code, link, $ and
\* <mark>, each enclosing the ones before it; "x" in bold and italic is
\* _**x**_.
C11_StylingOrder ==
    (/\ Returned("_style_content_with_annotation")
     /\ \A i \in 1..Len(arg) : arg[i].plain_text # <<>>) =>
        /\ ret = Concat([i \in 1..Len(arg) |-> C11_Nested(arg[i])])
        /\ (arg = C11_BoldItalicX => ret = <<"_", "*", "*", "x", "*", "*", "_">>)

C11_Witness ==
    /\ Returned("_style_content_with_annotation")
    /\ arg = C11_BoldItalicX
    /\ ret = <<"_", "*", "*", "x", "*", "*", "_">>

\* C12: a run without text contributes nothing and leaves the other runs
\* alone: the result is the concatenation of the styled runs that have text.
C12_EmptyRunContributesNothing ==
    Returned("_style_content_with_annotation") =>
        ret = Concat([i \in 1..Len(arg) |->
                         IF arg[i].plain_text = <<>> THEN <<>> ELSE C11_Nested(arg[i])])

\* ------------------------------------------------------------------------
\* Properties of the table renderer (under SpecCall)

\* the separator row of a table of width W
C13_Separator(width) == <<"|">> \o Concat([i \in 1..width |-> <<"-", "-", "-", "|">>])

\* the rendering of one table_row child
C13_RowLine(row) == table_row(row, 0, disk).val

\* a table of width >= 1 with at least one row, all rows with cells
C13_WellFormed(blob) ==
    /\ blob.table_width >= 1
    /\ Len(blob.children) >= 1
    /\ \A k \in 1..Len(blob.children) : blob.children[k].table_cells # <<>>

\* C13: a table of width W >= 1 with N >= 1 rows renders, between the two
\* shortcode lines, its N rows in child order with exactly one separator of
\* W "---" cells right after the first row; a table without table_width
\* fails.
C13_TableSeparator ==
    Returned("table") =>
        /\ (arg.table_width = 0 => ret.err = "AssertionError")
        /\ C13_WellFormed(arg) =>
              /\ ret.err = ""
              /\ LET lines == Split(ret.val, "\n")
                     N     == Len(arg.children)
                 IN  /\ Len(lines) = N + 4
                     /\ lines[3] = C13_RowLine(arg.children[1])
                     /\ lines[4] = C13_Separator(arg.table_width)
                     /\ \A k \in 2..N : lines[k + 3] = C13_RowLine(arg.children[k])
                     /\ Cardinality({k \in 1..Len(lines) :
                                        lines[k] = C13_Separator(arg.table_width)}) = 1

C13_Witness ==
    /\ Returned("table")
    /\ C13_WellFormed(arg)
    /\ arg.table_width = 2
    /\ Len(arg.children) = 3
    /\ Split(ret.val, "\n")[3] = <<"|", " ", "h", " ", "|", " ", "i", " ", "|">>
    /\ Split(ret.val, "\n")[4] = <<"|", "-", "-", "-", "|", "-", "-", "-", "|">>
    /\ Split(ret.val, "\n")[5] = <<"|", " ", "_", "*", "*", "x", "*", "*", "_", " ", "z", " ",
                                   "|", " ", " ", "|">>

\* ------------------------------------------------------------------------
\* Properties of NotionParser.parse_block (under SpecCall)

\* C14: every Node of a tree parse_block returned has the fields of its
\* variant: a table its table_width, a table_row its table_cells, an image
\* the path of a downloaded file.
RECURSIVE C14_VariantFields(_)
C14_VariantFields(blob) ==
    /\ blob.type = "table" => blob.table_width # 0
    /\ blob.type = "table_row" => blob.table_cells # <<>>
    /\ blob.type = "image" => blob.file # <<>> /\ blob.file \in DOMAIN disk
    /\ \A k \in 1..Len(blob.children) : C14_VariantFields(blob.children[k])

C14_VariantInvariant ==
    (Returned("parse_block") /\ ret.err = "") => C14_VariantFields(ret.blob)

\* the payload key the fields of a raw block come from
C15_Source(content) ==
    IF content.rich_text # <<>> THEN "rich_text"
    ELSE IF content.caption # <<>> \/ content.file.present THEN "caption"
    ELSE IF content.expression # <<>> THEN "expression"
    ELSE IF content.cells # <<>> THEN "cells"
    ELSE "none"

C15_Texts(runs) == [i \in 1..Len(runs) |-> runs[i].plain_text]

\* the fields of a Node are those of the one source of its raw block
C15_Fields(block, blob) ==
    CASE C15_Source(block.content) = "rich_text" ->
            /\ C15_Texts(blob.rich_text) = C15_Texts(block.content.rich_text)
            /\ \A i \in 1..Len(blob.rich_text) : ~blob.rich_text[i].is_caption
            /\ blob.table_cells = <<>> /\ blob.file = <<>>
      [] C15_Source(block.content) = "caption" ->
            /\ C15_Texts(blob.rich_text) = C15_Texts(block.content.caption)
            /\ \A i \in 1..Len(blob.rich_text) : blob.rich_text[i].is_caption
            /\ blob.table_cells = <<>>
      [] C15_Source(block.content) = "expression" ->
            /\ C15_Texts(blob.rich_text) = <<block.content.expression>>
            /\ blob.table_cells = <<>> /\ blob.file = <<>>
      [] C15_Source(block.content) = "cells" ->
            /\ blob.rich_text = <<>> /\ blob.file = <<>>
            /\ Len(blob.table_cells) = Len(block.content.cells)
            /\ \A i \in 1..Len(blob.table_cells) :
                  C15_Texts(blob.table_cells[i]) = C15_Texts(block.content.cells[i])
      [] OTHER ->
            blob.rich_text = <<>> /\ blob.table_cells = <<>> /\ blob.file = <<>>

RECURSIVE C15_SameShape(_, _)
C15_SameShape(block, blob) ==
    /\ blob.id = block.id
    /\ blob.type = block.type
    /\ C15_Fields(block, blob)
    /\ Len(blob.children) = Len(block.children)
    /\ \A k \in 1..Len(block.children) : C15_SameShape(block.children[k], blob.children[k])

\* C15: the tree parse_block returns has the shape of the raw tree: each
\* Node has the id and type of its raw block, its children are the parses
\* of the raw children in order, and its fields come from rich_text, else
\* caption/file, else expression, else cells, else are empty.
C15_ParseShape ==
    (Returned("parse_block") /\ ret.err = "") => C15_SameShape(arg, ret.blob)

C15_Witness ==
    /\ Returned("parse_block") /\ ret.err = ""
    /\ arg.content.rich_text # <<>> /\ arg.content.caption # <<>>
    /\ arg.content.cells # <<>>
    /\ Len(arg.children) = 2
    /\ ret.blob.children[1].id = <<"c", "1">> /\ ret.blob.children[2].id = <<"c", "2">>
    /\ C15_Texts(ret.blob.rich_text) = <<<<"t">>, <<"f", "e", "a", "t", "u", "r", "e", "i",
                                                    "m", "a", "g", "e">>>>

\* ------------------------------------------------------------------------
\* Properties of NotionParser.parse_properties (under SpecCall)

\* a dict-valued entry that the loop reaches and that none of named option,
\* formula value, prefixed number and date start resolves
C16_Unresolved(v) ==
    /\ ~Contains(<<"r", "e", "l", "a", "t", "i", "o", "n">>, v.type) /\ v.type # <<"t", "i",
                                                                                   "t", "l",
                                                                                   "e">>
    /\ v.c.kind = "dict"
    /\ v.c.name = <<>> /\ v.c.type = <<>> /\ v.c.start = <<>>
    /\ ~(v.c.prefix # <<>> /\ v.c.number # <<>>)

\* C16: when the raw properties hold a dict-valued entry that nothing
\* resolves, parse_properties fails; it returns no value for that key.
C16_UnresolvedDictFails ==
    Returned("parse_properties") =>
        \A k \in 1..Len(arg) :
            C16_Unresolved(arg[k]) =>
                /\ ret.err # ""
                /\ arg[k].key \notin DOMAIN ret.prop

====
